---- MODULE Spec2Model ----
(***************************************************************************)
(* Model of imap-thingy: the IDLE watch loop of EventsHandler              *)
(* (events_handler.py) and the criterion algebra of filters/criteria.      *)
(*                                                                         *)
(* Spec / LiveSpec run the watcher: the caller's thread (start, stop,      *)
(* join) interleaved with the background thread that executes _watch.      *)
(* CritSpec builds criteria with &, | and ~ and evaluates filter() against *)
(* a folder of messages; DupSpec evaluates DuplicateCriterion.filter.      *)
(* FilterSpec applies criterion filters (select, search, action) to the    *)
(* folders of an account; HandlerSpec runs the reaction callbacks of a     *)
(* watcher and follows every connection the accounts create.               *)
(***************************************************************************)
EXTENDS Integers, Sequences, FiniteSets, TLC

VARIABLES
    conns,       \* every connection account.extra_connection() returned: its state
    conn,        \* EventsHandler._conn: index into conns (0 before start())
    stop_event,  \* EventsHandler._stop_event.is_set()
    wpc,         \* position of the background thread inside _watch
    mpc,         \* position of the caller's thread (start / stop / join)
    nerr,        \* number of injected transient failures so far
    folder,      \* the selected folder: message id -> message
    crit,        \* the criterion built so far
    obs,         \* what the last operation on crit returned / called
    mailbox,     \* the account's folders: folder name -> (message id -> message)
    selected,    \* the folder selected on account.connection and its mode
    calls,       \* the commands the current filter application has issued
    run,         \* the filter application in progress or just finished
    connections, \* every connection an account created, with its commands
    cached,      \* EMailAccount._connection per account: index into connections, 0 = None
    hconn,       \* the watcher's own connection: index into connections, 0 before start()
    hrun         \* the last reaction: its batch and what it called, in order

vars == <<conns, conn, stop_event, wpc, mpc, nerr, folder, crit, obs,
          mailbox, selected, calls, run, connections, cached, hconn, hrun>>
watchVars == <<conns, conn, stop_event, wpc, mpc, nerr>>
critVars == <<folder, crit, obs>>
mailVars == <<mailbox, selected, calls, run>>
handlerVars == <<connections, cached, hconn, hrun>>

(***************************************************************************)
(* Bounds                                                                  *)
(***************************************************************************)
\* transient failures (network errors, raising callbacks) injected per run
MaxErrors == 2

(***************************************************************************)
(* The watcher                                                             *)
(***************************************************************************)

\* Exceptions a call made by _watch can raise, by the except clause that
\* catches them: (ssl.SSLEOFError, ProtocolError) or any other Exception.
WatchExceptions == {"ConnErr", "Other"}

\* Exceptions a call made by stop() can raise: ssl.SSLWantReadError, which
\* stop() passes over, or anything else, which it lets propagate.
StopExceptions == {"WantRead", "Other"}

ThreadExited == wpc \in {"done", "dead"}

\* Outcomes of a command the watch thread issues on connection c that is
\* legal in state `expect`.  A logged-out connection refuses every command;
\* a connection that stop() moved out of the expected state concurrently is
\* used by two threads at once and any outcome is possible; otherwise the
\* command succeeds unless a transient failure is injected.
CallOutcomes(c, expect) ==
    IF conns[c] = "LOGOUT" THEN WatchExceptions
    ELSE IF conns[c] # expect THEN {"ok"} \cup WatchExceptions
    ELSE {"ok"} \cup (IF nerr < MaxErrors THEN WatchExceptions ELSE {})

\* An exception counts against the failure budget only when it was injected.
Charge(c, expect, out) ==
    nerr' = IF out # "ok" /\ conns[c] = expect THEN nerr + 1 ELSE nerr

\* Control transfer of the try statement in _watch.
Raise(out) ==
    wpc' = IF out = "ConnErr" THEN "except_conn" ELSE "except_other"

\* EventsHandler.start
start ==
    /\ mpc = "init"
    /\ conns' = <<"SELECTED">>
    /\ conn' = 1
    /\ stop_event' = FALSE
    /\ wpc' = "loop"
    /\ mpc' = "running"
    /\ UNCHANGED <<nerr, critVars, mailVars, handlerVars>>

\* A loop that never looks at the stop flag.
watch_loop_ignoring_stop ==
    /\ wpc = "loop"
    /\ wpc' = "idle"
    /\ UNCHANGED <<conns, conn, stop_event, mpc, nerr, critVars, mailVars, handlerVars>>

\* while not self._stop_event.is_set(): ... `if not self._conn` is never
\* taken: _conn always holds the IMAPClient of start() or of _reconnect().
watch_loop ==
    /\ wpc = "loop"
    /\ wpc' = IF stop_event THEN "done" ELSE "idle"
    /\ UNCHANGED <<conns, conn, stop_event, mpc, nerr, critVars, mailVars, handlerVars>>

\* self._conn.idle()
watch_idle ==
    /\ wpc = "idle"
    /\ \E out \in CallOutcomes(conn, "SELECTED") :
        /\ Charge(conn, "SELECTED", out)
        /\ IF out = "ok"
              THEN /\ conns' = [conns EXCEPT ![conn] = "IDLE"]
                   /\ wpc' = "idle_check"
              ELSE /\ Raise(out)
                   /\ UNCHANGED conns
    /\ UNCHANGED <<conn, stop_event, mpc, critVars, mailVars, handlerVars>>

\* responses = self._conn.idle_check(IDLE_TIMEOUT): returns on a notification
\* or when the timeout elapses.
watch_idle_check ==
    /\ wpc = "idle_check"
    /\ \E out \in CallOutcomes(conn, "IDLE") :
        /\ Charge(conn, "IDLE", out)
        /\ IF out = "ok" THEN wpc' = "idle_done" ELSE Raise(out)
    /\ UNCHANGED <<conns, conn, stop_event, mpc, critVars, mailVars, handlerVars>>

\* self._conn.idle_done()
watch_idle_done ==
    /\ wpc = "idle_done"
    /\ \E out \in CallOutcomes(conn, "IDLE") :
        /\ Charge(conn, "IDLE", out)
        /\ IF out = "ok"
              THEN /\ conns' = [conns EXCEPT ![conn] = "SELECTED"]
                   /\ wpc' = "handle"
              ELSE /\ Raise(out)
                   /\ UNCHANGED conns
    /\ UNCHANGED <<conn, stop_event, mpc, critVars, mailVars, handlerVars>>

\* self.handle(responses): the reaction callback is entered ...
watch_handle_call ==
    /\ wpc = "handle"
    /\ wpc' = "in_handle"
    /\ UNCHANGED <<conns, conn, stop_event, mpc, nerr, critVars, mailVars, handlerVars>>

\* ... and returns or raises.
watch_handle_return ==
    /\ wpc = "in_handle"
    /\ \E out \in {"ok"} \cup (IF nerr < MaxErrors THEN WatchExceptions ELSE {}) :
        /\ nerr' = IF out = "ok" THEN nerr ELSE nerr + 1
        /\ IF out = "ok" THEN wpc' = "noop" ELSE Raise(out)
    /\ UNCHANGED <<conns, conn, stop_event, mpc, critVars, mailVars, handlerVars>>

\* self._conn.noop()
watch_noop ==
    /\ wpc = "noop"
    /\ \E out \in CallOutcomes(conn, "SELECTED") :
        /\ Charge(conn, "SELECTED", out)
        /\ IF out = "ok" THEN wpc' = "loop" ELSE Raise(out)
    /\ UNCHANGED <<conns, conn, stop_event, mpc, critVars, mailVars, handlerVars>>

\* A handler that reconnects whether or not a stop was requested.
watch_except_conn_reconnecting ==
    /\ wpc = "except_conn"
    /\ wpc' = "reconnect_logout"
    /\ UNCHANGED <<conns, conn, stop_event, mpc, nerr, critVars, mailVars, handlerVars>>

\* except (ssl.SSLEOFError, ProtocolError): break if a stop was requested,
\* else log, peek at the socket (its own errors are swallowed) and reconnect.
watch_except_conn ==
    /\ wpc = "except_conn"
    /\ wpc' = IF stop_event THEN "done" ELSE "reconnect_logout"
    /\ UNCHANGED <<conns, conn, stop_event, mpc, nerr, critVars, mailVars, handlerVars>>

\* except Exception: log and reconnect.
watch_except_other ==
    /\ wpc = "except_other"
    /\ wpc' = "reconnect_logout"
    /\ UNCHANGED <<conns, conn, stop_event, mpc, nerr, critVars, mailVars, handlerVars>>

\* _reconnect, first half: self._conn.logout() with every Exception swallowed.
reconnect_logout ==
    /\ wpc = "reconnect_logout"
    /\ conns' = [conns EXCEPT ![conn] = "LOGOUT"]
    /\ wpc' = "reconnect_open"
    /\ UNCHANGED <<conn, stop_event, mpc, nerr, critVars, mailVars, handlerVars>>

\* _reconnect, second half: self._conn = self.account.extra_connection(...).
\* Called from inside an except clause: if it raises, nothing catches it.
reconnect_open ==
    /\ wpc = "reconnect_open"
    /\ \E out \in {"ok"} \cup (IF nerr < MaxErrors THEN {"Other"} ELSE {}) :
        IF out = "ok"
           THEN /\ conns' = Append(conns, "SELECTED")
                /\ conn' = Len(conns) + 1
                /\ wpc' = "sleep"
                /\ UNCHANGED nerr
           ELSE /\ wpc' = "dead"
                /\ nerr' = nerr + 1
                /\ UNCHANGED <<conns, conn>>
    /\ UNCHANGED <<stop_event, mpc, critVars, mailVars, handlerVars>>

\* sleep(5) after _reconnect()
watch_sleep ==
    /\ wpc = "sleep"
    /\ wpc' = "loop"
    /\ UNCHANGED <<conns, conn, stop_event, mpc, nerr, critVars, mailVars, handlerVars>>

\* stop(): self._stop_event.set()
stop_set ==
    /\ mpc = "running"
    /\ stop_event' = TRUE
    /\ mpc' = "stop_idle_done"
    /\ UNCHANGED <<conns, conn, wpc, nerr, critVars, mailVars, handlerVars>>

\* stop(): self._conn.idle_done() under `except ssl.SSLWantReadError: pass`.
\* The watch thread may be using the same connection at this moment.
stop_idle_done ==
    /\ mpc = "stop_idle_done"
    /\ \E out \in {"ok"} \cup StopExceptions :
        /\ out = "ok" => conns[conn] # "LOGOUT"
        /\ conns' = IF out = "ok" /\ conns[conn] = "IDLE"
                       THEN [conns EXCEPT ![conn] = "SELECTED"] ELSE conns
        /\ mpc' = IF out = "Other" THEN "stop_raised" ELSE "stop_logout"
    /\ UNCHANGED <<conn, stop_event, wpc, nerr, critVars, mailVars, handlerVars>>

\* stop(): self._conn.logout() under `except ssl.SSLWantReadError: pass`.
stop_logout ==
    /\ mpc = "stop_logout"
    /\ \E out \in {"ok"} \cup StopExceptions :
        /\ out = "ok" => conns[conn] # "LOGOUT"
        /\ conns' = IF out = "ok" THEN [conns EXCEPT ![conn] = "LOGOUT"] ELSE conns
        /\ mpc' = IF out = "Other" THEN "stop_raised" ELSE "stop_returned"
    /\ UNCHANGED <<conn, stop_event, wpc, nerr, critVars, mailVars, handlerVars>>

\* A join that does not wait (such as a join with an elapsed timeout).
join_without_waiting ==
    /\ mpc \in {"running", "stop_returned"}
    /\ mpc' = "joined"
    /\ UNCHANGED <<conns, conn, stop_event, wpc, nerr, critVars, mailVars, handlerVars>>

\* join(): self._thread.join() returns once the thread has finished.
join ==
    /\ mpc \in {"running", "stop_returned"}
    /\ ThreadExited
    /\ mpc' = "joined"
    /\ UNCHANGED <<conns, conn, stop_event, wpc, nerr, critVars, mailVars, handlerVars>>

\* The steps of the background thread.
Watch ==
    \/ watch_loop
    \/ watch_idle
    \/ watch_idle_check
    \/ watch_idle_done
    \/ watch_handle_call
    \/ watch_handle_return
    \/ watch_noop
    \/ watch_except_conn
    \/ watch_except_other
    \/ reconnect_logout
    \/ reconnect_open
    \/ watch_sleep

\* The steps of the caller's thread.
Caller ==
    \/ start
    \/ stop_set
    \/ stop_idle_done
    \/ stop_logout
    \/ join

NoCrit == [cls |-> "none", func |-> <<>>, imap_query |-> <<>>]
NoObs == [op |-> "none"]

\* No filter is being applied and no reaction has run: the watcher and the
\* criterion runs leave the mailbox, the accounts and the reactions alone.
NoSelection == [name |-> "none", readonly |-> FALSE]
NoRun == [pc |-> "idle"]
NoReaction == [pc |-> "none"]

MailIdle ==
    /\ mailbox = <<>>
    /\ selected = NoSelection
    /\ calls = <<>>
    /\ run = NoRun

HandlerIdle ==
    /\ connections = <<>>
    /\ cached = <<>>
    /\ hconn = 0
    /\ hrun = NoReaction

Init ==
    /\ conns = <<>>
    /\ conn = 0
    /\ stop_event = FALSE
    /\ wpc = "notstarted"
    /\ mpc = "init"
    /\ nerr = 0
    /\ folder = <<>>
    /\ crit = NoCrit
    /\ obs = NoObs
    /\ MailIdle
    /\ HandlerIdle

Next == Watch \/ Caller

Spec == Init /\ [][Next]_vars

\* The thread scheduler runs the background thread whenever it can take a
\* step; every blocking call inside it returns (idle_check by its timeout).
LiveSpec == Init /\ [][Next]_vars /\ WF_vars(Watch)

(***************************************************************************)
(* Messages and the IMAP server's view of them                             *)
(***************************************************************************)
\* messages in the folder of a criterion-algebra run
MaxMsgs == 2
\* messages in the folder of a duplicate-detection run
MaxDupMsgs == 3
\* boolean operators applied on top of a primitive criterion
MaxOps == 2

\* Python strings are sequences of characters.
A_X == <<"a", "@", "x">>
AA_X == <<"a", "a", "@", "x">>
B_Y == <<"b", "@", "y">>
NoStr == <<>>
\* imap_query=None (falsy, like the empty list)
None == <<>>

\* Messages a folder is filled from.  raw is what parse_from_bytes is given:
\* "ok" parses into the header fields, "bad" makes the parser raise, "empty"
\* is a fetch result without BODY[] data.  flags are the server's flags.
Msg(raw, name, email, subject, mid, fl) ==
    [raw |-> raw, from_ |-> <<<<name, email>>>>, subject |-> subject,
     date |-> <<"d">>, message_id |-> mid, flags |-> fl]

MsgPool == {
    Msg("ok", <<"N">>, A_X, <<"s">>, <<"1">>, {"\\Seen"}),
    Msg("ok", <<"N">>, AA_X, <<"s">>, <<"1">>, {}),
    Msg("ok", <<"N">>, B_Y, <<"s">>, NoStr, {"\\Seen"}),
    Msg("ok", <<"N">>, A_X, <<"s">>, NoStr, {}),
    Msg("bad", <<"N">>, A_X, <<"s">>, <<"1">>, {"\\Seen"}),
    Msg("empty", <<"N">>, AA_X, <<"s">>, <<"2">>, {"\\Seen"}) }

\* The messages of a criterion-algebra run: those of the pool that differ in
\* sender, flags or body (a missing Message-ID matters to duplicates only).
CritPool == {m \in MsgPool : m.message_id # NoStr \/ m.from_[1][2] = B_Y}

Folders(pool, n) == UNION {[1..k -> pool] : k \in 0..n}

\* Python `p in s` on strings.
IsSubstring(p, s) ==
    \E i \in 0..(Len(s) - Len(p)) : SubSeq(s, i + 1, i + Len(p)) = p

\* re.fullmatch(pattern, string) for patterns made of literal characters and
\* the token ".*".
RECURSIVE FullMatch(_, _)
FullMatch(p, s) ==
    IF p = <<>> THEN s = <<>>
    ELSE IF Head(p) = ".*"
         THEN \E k \in 0..Len(s) : FullMatch(Tail(p), SubSeq(s, k + 1, Len(s)))
         ELSE s # <<>> /\ Head(s) = Head(p) /\ FullMatch(Tail(p), Tail(s))

\* _matches
matches(pattern, string) == FullMatch(pattern, string)

\* IMAP SEARCH: does message m satisfy the search key list q?  A list is the
\* conjunction of its keys; FROM takes a string and matches it as a substring
\* of the From header; NOT takes one key (a nested list), OR takes two.
RECURSIVE ServerMatches(_, _)
ServerMatches(q, m) ==
    IF q = <<>> THEN TRUE
    ELSE LET key == Head(q) IN
         CASE key = "ALL" -> ServerMatches(Tail(q), m)
           [] key = "SEEN" -> "\\Seen" \in m.flags /\ ServerMatches(Tail(q), m)
           [] key = "FLAGGED" -> "\\Flagged" \in m.flags /\ ServerMatches(Tail(q), m)
           [] key = "FROM" ->
                /\ \E a \in 1..Len(m.from_) :
                       IsSubstring(q[2], m.from_[a][1]) \/ IsSubstring(q[2], m.from_[a][2])
                /\ ServerMatches(SubSeq(q, 3, Len(q)), m)
           [] key = "NOT" ->
                ~ServerMatches(q[2], m) /\ ServerMatches(SubSeq(q, 3, Len(q)), m)
           [] key = "OR" ->
                /\ ServerMatches(q[2], m) \/ ServerMatches(q[3], m)
                /\ ServerMatches(SubSeq(q, 4, Len(q)), m)

\* connection.search(imap_query) on the selected folder
search(q) == {i \in DOMAIN folder : ServerMatches(q, folder[i])}

\* mailparser.parse_from_bytes(body_data) plus msg._imap_flags = flags
ParsedMail(m) ==
    [from_ |-> m.from_, subject |-> m.subject, date |-> m.date,
     message_id |-> m.message_id, imap_flags |-> m.flags]

\* _extract_emails(msg, "from_")
extract_emails(msg) == IF msg.from_ = <<>> THEN <<>> ELSE msg.from_

(***************************************************************************)
(* Criteria                                                                *)
(***************************************************************************)

\* Criterion.func applied to a parsed message.  A func is one of the closures
\* the constructors and operators of the criteria create.
RECURSIVE Call(_, _)
Call(f, msg) ==
    CASE f[1] = "FromIs" ->
            \E a \in 1..Len(extract_emails(msg)) : f[2] = extract_emails(msg)[a][2]
      [] f[1] = "FromMatches" ->
            \E a \in 1..Len(extract_emails(msg)) : matches(f[2], extract_emails(msg)[a][2])
      [] f[1] = "IsRead" -> "\\Seen" \in msg.imap_flags
      [] f[1] = "IsStarred" -> "\\Flagged" \in msg.imap_flags
      [] f[1] = "True" -> TRUE
      [] f[1] = "False" -> FALSE
      [] f[1] = "and" -> Call(f[2], msg) /\ Call(f[3], msg)
      [] f[1] = "or" -> Call(f[2], msg) \/ Call(f[3], msg)
      [] f[1] = "not" -> ~Call(f[2], msg)

\* Python truthiness of imap_query
Truthy(q) == q # None

FromIs(addr) ==
    [cls |-> "Criterion", func |-> <<"FromIs", addr>>, imap_query |-> <<"FROM", addr>>]

FromMatches(pattern) ==
    [cls |-> "Criterion", func |-> <<"FromMatches", pattern>>, imap_query |-> None]

IsRead ==
    [cls |-> "EfficientCriterion", func |-> <<"IsRead">>, imap_query |-> <<"SEEN">>]

IsStarred ==
    [cls |-> "EfficientCriterion", func |-> <<"IsStarred">>, imap_query |-> <<"FLAGGED">>]

SelectAll ==
    [cls |-> "EfficientCriterion", func |-> <<"True">>, imap_query |-> <<"ALL">>]

DuplicateCriterion ==
    [cls |-> "DuplicateCriterion", func |-> <<"False">>, imap_query |-> None]

\* The primitive criteria of a run.
Primitives ==
    {FromIs(A_X), FromMatches(<<"a", ".*">>), IsRead, SelectAll, DuplicateCriterion}

\* _make_efficient
make_efficient(criterion) ==
    IF criterion.imap_query = None
       THEN [cls |-> "ValueError", func |-> criterion.func, imap_query |-> None]
       ELSE [cls |-> "EfficientCriterion", func |-> criterion.func,
             imap_query |-> criterion.imap_query]

\* An & that keeps a query only when the left operand has one.
Criterion_and_left_query(self, other) ==
    [cls |-> "Criterion",
     func |-> <<"and", self.func, other.func>>,
     imap_query |->
        IF Truthy(self.imap_query) /\ Truthy(other.imap_query)
           THEN self.imap_query \o other.imap_query
           ELSE self.imap_query]

\* Criterion.__and__
Criterion_and(self, other) ==
    [cls |-> "Criterion",
     func |-> <<"and", self.func, other.func>>,
     imap_query |->
        IF Truthy(self.imap_query) /\ Truthy(other.imap_query)
           THEN self.imap_query \o other.imap_query
           ELSE IF Truthy(self.imap_query) THEN self.imap_query ELSE other.imap_query]

\* Criterion.__or__
Criterion_or(self, other) ==
    [cls |-> "Criterion",
     func |-> <<"or", self.func, other.func>>,
     imap_query |->
        IF Truthy(self.imap_query) /\ Truthy(other.imap_query)
           THEN <<"OR", self.imap_query, other.imap_query>>
           ELSE None]

\* Criterion.__invert__
Criterion_invert(self) ==
    [cls |-> "Criterion",
     func |-> <<"not", self.func>>,
     imap_query |-> IF Truthy(self.imap_query) THEN <<"NOT", self.imap_query>> ELSE None]

\* An __and__ that forgets to restore efficiency.
EfficientCriterion_and_plain(self, other) == Criterion_and(self, other)

\* EfficientCriterion.__and__
EfficientCriterion_and(self, other) ==
    IF other.cls = "EfficientCriterion"
       THEN make_efficient(Criterion_and(self, other))
       ELSE Criterion_and(self, other)

\* EfficientCriterion.__or__
EfficientCriterion_or(self, other) ==
    IF other.cls = "EfficientCriterion"
       THEN make_efficient(Criterion_or(self, other))
       ELSE Criterion_or(self, other)

\* EfficientCriterion.__invert__
EfficientCriterion_invert(self) == make_efficient(Criterion_invert(self))

\* self & other, self | other, ~self: Python dispatches on the class of self.
And(self, other) ==
    IF self.cls = "EfficientCriterion"
       THEN EfficientCriterion_and(self, other) ELSE Criterion_and(self, other)

Or(self, other) ==
    IF self.cls = "EfficientCriterion"
       THEN EfficientCriterion_or(self, other) ELSE Criterion_or(self, other)

Invert(self) ==
    IF self.cls = "EfficientCriterion"
       THEN EfficientCriterion_invert(self) ELSE Criterion_invert(self)

\* The ids of a set in the order fetch returns them.
RECURSIVE Ascending(_)
Ascending(S) ==
    IF S = {} THEN <<>>
    ELSE LET lo == CHOOSE i \in S : \A j \in S : i <= j
         IN <<lo>> \o Ascending(S \ {lo})

\* A loop that gives up at the first message it cannot parse.
RECURSIVE get_mail_loop_aborting(_, _)
get_mail_loop_aborting(ids, messages) ==
    IF ids = <<>> THEN messages
    ELSE LET msgid == Head(ids)
             data == folder[msgid]
         IN IF data.raw = "empty" THEN get_mail_loop_aborting(Tail(ids), messages)
            ELSE IF data.raw = "bad" THEN messages
            ELSE get_mail_loop_aborting(Tail(ids), Append(messages, <<msgid, ParsedMail(data)>>))

\* The for loop of _get_mail over fetched.items(): a message without body
\* data is skipped, a message the parser rejects is skipped, every other
\* message is appended as (msgid, msg).
RECURSIVE get_mail_loop(_, _)
get_mail_loop(ids, messages) ==
    IF ids = <<>> THEN messages
    ELSE LET msgid == Head(ids)
             data == folder[msgid]
         IN IF data.raw = "empty" THEN get_mail_loop(Tail(ids), messages)
            ELSE IF data.raw = "bad" THEN get_mail_loop(Tail(ids), messages)
            ELSE get_mail_loop(Tail(ids), Append(messages, <<msgid, ParsedMail(data)>>))

\* _get_mail(client, imap_query): the messages and the calls made on client
\* and on the parser.
get_mail(imap_query) ==
    LET msg_ids == search(imap_query) IN
    [messages |-> get_mail_loop(Ascending(msg_ids), <<>>),
     calls |-> <<<<"search", imap_query>>, <<"fetch", msg_ids>>>>,
     parsed |-> {i \in msg_ids : folder[i].raw # "empty"}]

\* Criterion.filter
Criterion_filter(self) ==
    LET imap_query == IF Truthy(self.imap_query) THEN self.imap_query ELSE <<"ALL">>
        mail == get_mail(imap_query)
    IN [ids |-> {mail.messages[k][1] : k \in {k \in 1..Len(mail.messages) :
                                               Call(self.func, mail.messages[k][2])}},
        calls |-> mail.calls,
        parsed |-> mail.parsed]

\* EfficientCriterion.filter
EfficientCriterion_filter(self) ==
    [ids |-> search(self.imap_query),
     calls |-> <<<<"search", self.imap_query>>>>,
     parsed |-> {}]

\* _get_duplicate_key: "msgid:<message_id>" or "fallback:<subject>|<from>|<date>"
get_duplicate_key(msg) ==
    IF msg.message_id # NoStr
       THEN <<"msgid:">> \o msg.message_id
       ELSE LET from_addr ==
                    IF msg.from_ # <<>>
                       THEN (IF Len(msg.from_[1]) > 1 THEN msg.from_[1][2] ELSE msg.from_[1][1])
                       ELSE NoStr
            IN <<"fallback:">> \o msg.subject \o <<"|">> \o from_addr \o <<"|">> \o msg.date

\* A filter that reports one message of each group, the last one.
DuplicateCriterion_filter_last_only(self) ==
    LET mail == get_mail(<<"ALL">>)
        messages == mail.messages
        keys == {get_duplicate_key(messages[k][2]) : k \in 1..Len(messages)}
        group(key) == {messages[k][1] : k \in {k \in 1..Len(messages) :
                                                get_duplicate_key(messages[k][2]) = key}}
        last_msgid(key) == CHOOSE i \in group(key) : \A j \in group(key) : i >= j
    IN [ids |-> {last_msgid(key) : key \in {k \in keys : Cardinality(group(k)) > 1}},
        calls |-> mail.calls,
        parsed |-> mail.parsed]

\* A filter that sorts each group descending and so keeps the largest id.
DuplicateCriterion_filter_keep_last(self) ==
    LET mail == get_mail(<<"ALL">>)
        messages == mail.messages
        keys == {get_duplicate_key(messages[k][2]) : k \in 1..Len(messages)}
        group(key) == {messages[k][1] : k \in {k \in 1..Len(messages) :
                                                get_duplicate_key(messages[k][2]) = key}}
        keep_msgid(key) == CHOOSE i \in group(key) : \A j \in group(key) : i >= j
    IN [ids |-> UNION {group(key) \ {keep_msgid(key)} :
                           key \in {k \in keys : Cardinality(group(k)) > 1}},
        calls |-> mail.calls,
        parsed |-> mail.parsed]

\* DuplicateCriterion.filter
DuplicateCriterion_filter(self) ==
    LET mail == get_mail(<<"ALL">>)
        messages == mail.messages
        keys == {get_duplicate_key(messages[k][2]) : k \in 1..Len(messages)}
        group(key) == {messages[k][1] : k \in {k \in 1..Len(messages) :
                                                get_duplicate_key(messages[k][2]) = key}}
        keep_msgid(key) == CHOOSE i \in group(key) : \A j \in group(key) : i <= j
    IN [ids |-> UNION {group(key) \ {keep_msgid(key)} :
                           key \in {k \in keys : Cardinality(group(k)) > 1}},
        calls |-> mail.calls,
        parsed |-> mail.parsed]

\* criterion.filter(connection): Python dispatches on the class.
Filter(c) ==
    CASE c.cls = "EfficientCriterion" -> EfficientCriterion_filter(c)
      [] c.cls = "DuplicateCriterion" -> DuplicateCriterion_filter(c)
      [] OTHER -> Criterion_filter(c)

\* Number of operators in a func.
RECURSIVE Ops(_)
Ops(f) ==
    CASE f[1] \in {"and", "or"} -> 1 + Ops(f[2]) + Ops(f[3])
      [] f[1] = "not" -> 1 + Ops(f[2])
      [] OTHER -> 0

NoResult == [ids |-> {}, calls |-> <<>>, parsed |-> {}]

\* crit = lhs & rhs
crit_and ==
    /\ Ops(crit.func) < MaxOps
    /\ \E p \in Primitives :
        /\ crit' = And(crit, p)
        /\ obs' = [op |-> "and", lhs |-> crit, rhs |-> p, filtered |-> FALSE, result |-> NoResult]
    /\ UNCHANGED <<folder, watchVars, mailVars, handlerVars>>

\* crit = lhs | rhs
crit_or ==
    /\ Ops(crit.func) < MaxOps
    /\ \E p \in Primitives :
        /\ crit' = Or(crit, p)
        /\ obs' = [op |-> "or", lhs |-> crit, rhs |-> p, filtered |-> FALSE, result |-> NoResult]
    /\ UNCHANGED <<folder, watchVars, mailVars, handlerVars>>

\* crit = ~lhs
crit_invert ==
    /\ Ops(crit.func) < MaxOps
    /\ crit' = Invert(crit)
    /\ obs' = [op |-> "invert", lhs |-> crit, rhs |-> crit, filtered |-> FALSE, result |-> NoResult]
    /\ UNCHANGED <<folder, watchVars, mailVars, handlerVars>>

\* result = crit.filter(connection)
crit_filter ==
    /\ ~obs.filtered
    /\ obs' = [obs EXCEPT !.filtered = TRUE, !.result = Filter(crit)]
    /\ UNCHANGED <<folder, crit, watchVars, mailVars, handlerVars>>

WatchIdle ==
    /\ conns = <<>>
    /\ conn = 0
    /\ stop_event = FALSE
    /\ wpc = "notstarted"
    /\ mpc = "init"
    /\ nerr = 0

CritInit ==
    /\ WatchIdle
    /\ MailIdle
    /\ HandlerIdle
    /\ folder \in Folders(CritPool, MaxMsgs)
    /\ crit \in Primitives
    /\ obs = [op |-> "new", lhs |-> crit, rhs |-> crit, filtered |-> FALSE, result |-> NoResult]

CritNext == crit_and \/ crit_or \/ crit_invert \/ crit_filter

CritSpec == CritInit /\ [][CritNext]_vars

DupInit ==
    /\ WatchIdle
    /\ MailIdle
    /\ HandlerIdle
    /\ folder \in Folders(MsgPool, MaxDupMsgs)
    /\ crit = DuplicateCriterion
    /\ obs = [op |-> "new", lhs |-> crit, rhs |-> crit, filtered |-> FALSE, result |-> NoResult]

\* DuplicateFilter.apply, after the criterion: Trash() moves the reported
\* ids out of the filter's folder into the account's trash folder (nothing
\* when the list is empty), and the filter may be applied again.
trash_duplicates ==
    /\ obs.op = "new" /\ obs.filtered
    /\ folder' = [u \in DOMAIN folder \ obs.result.ids |-> folder[u]]
    /\ obs' = [op |-> "trashed", lhs |-> crit, rhs |-> crit, filtered |-> FALSE,
               result |-> NoResult, before |-> folder, first |-> obs.result.ids]
    /\ UNCHANGED <<crit, watchVars, mailVars, handlerVars>>

DupNext == crit_filter \/ trash_duplicates

DupSpec == DupInit /\ [][DupNext]_vars

(***************************************************************************)
(* Properties of the criteria                                              *)
(***************************************************************************)

\* The ids self.func alone selects when every message of the folder is
\* fetched and parsed (Criterion.filter without server-side narrowing).
PredicateAlone(c) == Criterion_filter([c EXCEPT !.imap_query = None]).ids

\* C4: Criterion.filter of a criterion that carries a server-side query
\* never omits a message that its predicate alone would select.
C4_QueryNeverLosesMatches ==
    obs.filtered /\ crit.cls = "Criterion" /\ Truthy(crit.imap_query)
        => PredicateAlone(crit) \subseteq obs.result.ids

\* C5: (~c).filter is the complement of c.filter within the result of
\* searching ALL.
C5_InvertIsComplement ==
    obs.filtered /\ obs.op = "invert"
        => obs.result.ids = search(<<"ALL">>) \ Filter(obs.lhs).ids

\* C6: (c1 & c2).filter is the intersection of c1.filter and c2.filter.
C6_AndIsIntersection ==
    obs.filtered /\ obs.op = "and"
        => obs.result.ids = Filter(obs.lhs).ids \cap Filter(obs.rhs).ids

\* C7: (c1 | c2).filter is the union of c1.filter and c2.filter.
C7_OrIsUnion ==
    obs.filtered /\ obs.op = "or"
        => obs.result.ids = Filter(obs.lhs).ids \cup Filter(obs.rhs).ids

\* The filtered criterion is an efficient primitive or was built from
\* efficient operands.
BuiltFromEfficient ==
    \/ obs.op = "new" /\ crit.cls = "EfficientCriterion"
    \/ obs.op \in {"and", "or"} /\ obs.lhs.cls = "EfficientCriterion"
                                /\ obs.rhs.cls = "EfficientCriterion"
    \/ obs.op = "invert" /\ obs.lhs.cls = "EfficientCriterion"

\* C8: filter() on an efficient criterion, primitive or built from efficient
\* criteria with &, | or ~, issues exactly one search with its own query,
\* returns the ids of that search unchanged, never fetches and never parses.
C8_EfficientOnlySearches ==
    obs.filtered /\ BuiltFromEfficient
        => /\ obs.result.calls = <<<<"search", crit.imap_query>>>>
           /\ Truthy(crit.imap_query)
           /\ obs.result.ids = {i \in DOMAIN folder : ServerMatches(crit.imap_query, folder[i])}
           /\ obs.result.parsed = {}

\* Two operators over efficient primitives, filtered on a folder in which the
\* query selects some message whose body cannot be parsed.
C8_Witness ==
    /\ obs.filtered /\ BuiltFromEfficient
    /\ obs.op \in {"and", "or"}
    /\ Ops(crit.func) = 2
    /\ \E i \in obs.result.ids : folder[i].raw # "ok"

\* C9: Criterion.filter on a non-efficient criterion returns exactly the
\* searched messages that have a body, parse, and satisfy the predicate;
\* messages without body or failing to parse are skipped, the rest evaluated.
C9_UnparsableSkipped ==
    obs.filtered /\ crit.cls = "Criterion"
        => LET q == IF Truthy(crit.imap_query) THEN crit.imap_query ELSE <<"ALL">>
           IN obs.result.ids =
                {i \in DOMAIN folder :
                    /\ ServerMatches(q, folder[i])
                    /\ folder[i].raw = "ok"
                    /\ Call(crit.func, ParsedMail(folder[i]))}

\* A message that cannot be parsed was searched and fetched before a message
\* that is part of the result.
C9_Witness ==
    /\ obs.filtered /\ crit.cls = "Criterion"
    /\ \E i \in DOMAIN folder, j \in obs.result.ids :
          /\ i < j
          /\ folder[i].raw # "ok"
          /\ <<"fetch", DOMAIN folder>> = obs.result.calls[2]

\* C10: DuplicateCriterion.filter returns exactly the parsable messages that
\* are not the smallest id of their duplicate-key group; in particular
\* nothing for singleton groups and for the empty folder.
C10_DuplicatesButSmallest ==
    obs.filtered /\ crit.cls = "DuplicateCriterion"
        => LET parsable == {i \in DOMAIN folder : folder[i].raw = "ok"}
               key(i) == get_duplicate_key(ParsedMail(folder[i]))
           IN obs.result.ids =
                {i \in parsable : \E j \in parsable : j < i /\ key(j) = key(i)}

\* A folder with a group of three duplicates (two of them reported) whose
\* ids are not the folder's smallest, next to an unrelated or unparsable one.
C10_Witness ==
    /\ obs.filtered /\ crit.cls = "DuplicateCriterion"
    /\ Cardinality(obs.result.ids) >= 1
    /\ 1 \notin obs.result.ids /\ 2 \notin obs.result.ids
    /\ Len(folder) = MaxDupMsgs

(***************************************************************************)
(* Properties of the watcher                                               *)
(***************************************************************************)

C2_LoopEndsOnlyOnStop ==
    ThreadExited => wpc = "done" /\ stop_event

\* C3: once stop() has set the stop flag, the background loop eventually
\* terminates, whatever it was doing at that moment.
C3_StopLeadsToExit ==
    stop_event ~> ThreadExited

\* stop() was requested while the thread was inside the loop body, and the
\* thread has since terminated.
C3_Witness ==
    stop_event /\ wpc = "done" /\ mpc \in {"stop_returned", "stop_raised"}

(***************************************************************************)
(* Actions                                                                 *)
(***************************************************************************)
\* messages in the account's folders of a filter run
MaxFilterMsgs == 2
\* filter applications per run
MaxApplies == 2

FolderNames == {"INBOX", "Archive"}

\* connection.move(msgids, dest) on the selected folder sel: the messages of
\* sel named by msgids leave sel and appear in dest.  Ids are unique over
\* the account, so a message keeps its id and can be followed.
ServerMove(mb, sel, msgids, dest) ==
    LET moved == msgids \cap DOMAIN mb[sel] IN
    IF dest = sel THEN mb
    ELSE [f \in DOMAIN mb |->
            IF f = sel THEN [u \in DOMAIN mb[sel] \ moved |-> mb[sel][u]]
            ELSE IF f = dest
                 THEN [u \in DOMAIN mb[dest] \cup moved |->
                          IF u \in moved THEN mb[sel][u] ELSE mb[dest][u]]
                 ELSE mb[f]]

\* connection.add_flags(msgids, [flag]) on the selected folder
ServerAddFlags(mb, sel, msgids, flag) ==
    [mb EXCEPT ![sel] = [u \in DOMAIN mb[sel] |->
        IF u \in msgids THEN [mb[sel][u] EXCEPT !.flags = @ \cup {flag}] ELSE mb[sel][u]]]

\* connection.remove_flags(msgids, [flag]) on the selected folder
ServerRemoveFlags(mb, sel, msgids, flag) ==
    [mb EXCEPT ![sel] = [u \in DOMAIN mb[sel] |->
        IF u \in msgids THEN [mb[sel][u] EXCEPT !.flags = @ \ {flag}] ELSE mb[sel][u]]]

\* Action(func, name).  A func is one of the closures the action classes and
\* & create: <<"move", folder>>, <<"add_flags", flag>>,
\* <<"remove_flags", flag>>, <<"chain", self.func, other.func>>.
Action(func, name) == [func |-> func, name |-> name]

MoveTo(dest) == Action(<<"move", dest>>, <<"move to ", dest>>)
MarkAsRead == Action(<<"add_flags", "\\Seen">>, <<"mark as read">>)
MarkAsUnread == Action(<<"remove_flags", "\\Seen">>, <<"mark as unread">>)
Star == Action(<<"add_flags", "\\Flagged">>, <<"star">>)
Unstar == Action(<<"remove_flags", "\\Flagged">>, <<"unstar">>)

\* self & other
Action_and(self, other) ==
    Action(<<"chain", self.func, other.func>>, self.name \o <<"; ">> \o other.name)

\* The primitive closures of a func, left to right.
RECURSIVE PrimitiveActions(_)
PrimitiveActions(f) ==
    IF f[1] = "chain" THEN PrimitiveActions(f[2]) \o PrimitiveActions(f[3]) ELSE <<f>>

\* func(account, msgids) in the state st of the account's connection: the
\* command is issued once, with the whole list.  st.fail numbers the
\* command of this execution that the server refuses (0: none); a refused
\* command changes nothing and raises, and st.raised tells that an
\* exception is propagating, so that nothing else is called.
RECURSIVE CallAction(_, _, _)

\* A closure that undoes the left operand's effect when the right one fails.
newfunc_rollback(f, g, st, msg) ==
    LET r == CallAction(g, CallAction(f, st, msg), msg)
    IN IF r.raised THEN [r EXCEPT !.mailbox = st.mailbox] ELSE r

\* A closure that runs the right operand first.
newfunc_reversed(f, g, st, msg) == CallAction(f, CallAction(g, st, msg), msg)

\* newfunc of __and__: self.func(account, msg); other.func(account, msg)
newfunc(f, g, st, msg) == CallAction(g, CallAction(f, st, msg), msg)

CallAction(f, st, msgids) ==
    IF st.raised THEN st
    ELSE IF f[1] = "chain" THEN newfunc(f[2], f[3], st, msgids)
    ELSE LET issued == [st EXCEPT !.calls = Append(@, <<f[1], msgids, f[2]>>),
                                  !.issued = @ + 1]
         IN IF issued.issued = st.fail THEN [issued EXCEPT !.raised = TRUE]
            ELSE CASE f[1] = "move" ->
                        [issued EXCEPT !.mailbox = ServerMove(st.mailbox, st.sel, msgids, f[2])]
                   [] f[1] = "add_flags" ->
                        [issued EXCEPT !.mailbox = ServerAddFlags(st.mailbox, st.sel, msgids, f[2])]
                   [] f[1] = "remove_flags" ->
                        [issued EXCEPT !.mailbox = ServerRemoveFlags(st.mailbox, st.sel, msgids, f[2])]

\* Action.execute
execute(self, st, msgids) == CallAction(self.func, st, msgids)

(***************************************************************************)
(* Filters                                                                 *)
(***************************************************************************)

\* CriterionFilter(account, criterion, action, base_folder).  cls is the
\* Python class and args the arguments its constructor was given.
CriterionFilter(criterion, action, base_folder) ==
    [cls |-> "CriterionFilter", base_folder |-> base_folder,
     criterion |-> criterion, action |-> action,
     args |-> [criterion |-> criterion, action |-> action]]

\* MoveIfFromFilter(account, sender, folder, mark_read, base_folder)
MoveIfFromFilter(sender, dest, mark_read, base_folder) ==
    LET action == IF mark_read THEN Action_and(MarkAsRead, MoveTo(dest)) ELSE MoveTo(dest)
    IN [CriterionFilter(FromIs(sender), action, base_folder)
            EXCEPT !.cls = "MoveIfFromFilter",
                   !.args = [sender |-> sender, folder |-> dest, mark_read |-> mark_read]]

\* A filter that removes the star after the wrapped action has run.
ProcessHandledFilter_unstar_last(criterion, action, base_folder) ==
    [CriterionFilter(And(criterion, IsStarred), Action_and(action, Unstar), base_folder)
        EXCEPT !.cls = "ProcessHandledFilter",
               !.args = [criterion |-> criterion, action |-> action]]

\* ProcessHandledFilter(account, criterion, action, base_folder)
ProcessHandledFilter(criterion, action, base_folder) ==
    LET combined_criterion == And(criterion, IsStarred)
        combined_action == Action_and(Unstar, action)
    IN [CriterionFilter(combined_criterion, combined_action, base_folder)
            EXCEPT !.cls = "ProcessHandledFilter",
                   !.args = [criterion |-> criterion, action |-> action]]

\* The filters of a run.
FilterSet == {
    CriterionFilter(SelectAll, MoveTo("Archive"), "INBOX"),
    CriterionFilter(IsRead, MarkAsUnread, "Archive"),
    MoveIfFromFilter(A_X, "Archive", TRUE, "INBOX"),
    ProcessHandledFilter(FromIs(A_X), MoveTo("Archive"), "INBOX"),
    ProcessHandledFilter(SelectAll, Action_and(MarkAsRead, MoveTo("INBOX")), "Archive"),
    ProcessHandledFilter(DuplicateCriterion, Star, "INBOX")}

\* Messages the account's folders are filled from.
FilterPool == {
    Msg("ok", <<"N">>, A_X, <<"s">>, <<"1">>, {}),
    Msg("ok", <<"N">>, A_X, <<"s">>, <<"1">>, {"\\Flagged"}),
    Msg("ok", <<"N">>, B_Y, <<"s">>, <<"2">>, {"\\Seen", "\\Flagged"}),
    Msg("bad", <<"N">>, AA_X, <<"s">>, <<"3">>, {"\\Flagged"})}

\* Every distribution of n messages of the pool over the folders.
Mailboxes(n) ==
    {[f \in FolderNames |-> [u \in {v \in 1..n : loc[v] = f} |-> msg[u]]] :
        loc \in [1..n -> FolderNames], msg \in [1..n -> FilterPool]}

\* EMailAccount.connection of the account of a filter run: the cached
\* connection, created with INBOX selected read-write at its first use.
connection(sel) ==
    IF sel = NoSelection THEN [name |-> "INBOX", readonly |-> FALSE] ELSE sel

\* connection.select_folder(name, readonly)
select_folder(name, readonly) == [name |-> name, readonly |-> readonly]

NoFilter == [cls |-> "none"]

\* The commands that change a message's flags or folder.
ActionCommands == {"move", "add_flags", "remove_flags", "expunge"}

\* An application that evaluates the criterion on whatever folder the
\* connection has selected already.
apply_select_keeping_folder ==
    /\ run.pc \in {"idle", "applied", "raised"}
    /\ run.n < MaxApplies
    /\ \E filt \in FilterSet, dry_run \in BOOLEAN :
        /\ selected' = connection(selected)
        /\ folder' = mailbox[connection(selected).name]
        /\ calls' = <<>>
        /\ run' = [pc |-> "selected", n |-> run.n, filter |-> filt, dry_run |-> dry_run,
                   msgs |-> {}, before |-> mailbox, prev |-> selected, fail |-> 0,
                   last |-> [filter |-> run.filter, msgs |-> run.msgs]]
    /\ UNCHANGED <<mailbox, crit, obs, watchVars, handlerVars>>

\* CriterionFilter.apply(dry_run), first statement:
\* self.account.connection.select_folder(self.base_folder, readonly=False)
apply_select ==
    /\ run.pc \in {"idle", "applied", "raised"}
    /\ run.n < MaxApplies
    /\ \E filt \in FilterSet, dry_run \in BOOLEAN :
        /\ selected' = select_folder(filt.base_folder, FALSE)
        /\ folder' = mailbox[filt.base_folder]
        /\ calls' = <<<<"select_folder", filt.base_folder, FALSE>>>>
        /\ run' = [pc |-> "selected", n |-> run.n, filter |-> filt, dry_run |-> dry_run,
                   msgs |-> {}, before |-> mailbox, prev |-> selected, fail |-> 0,
                   last |-> [filter |-> run.filter, msgs |-> run.msgs]]
    /\ UNCHANGED <<mailbox, crit, obs, watchVars, handlerVars>>

\* An application that passes on the result of the previous application of
\* the same filter instead of evaluating the criterion again.
apply_criterion_cached ==
    /\ run.pc = "selected"
    /\ LET res == Filter(run.filter.criterion) IN
        /\ run' = [run EXCEPT !.pc = "filtered",
                              !.msgs = IF run.last.filter = run.filter
                                          THEN run.last.msgs ELSE res.ids]
        /\ calls' = calls \o res.calls
    /\ UNCHANGED <<mailbox, selected, folder, crit, obs, watchVars, handlerVars>>

\* second statement: msgs = self.criterion.filter(self.account.connection)
apply_criterion ==
    /\ run.pc = "selected"
    /\ LET res == Filter(run.filter.criterion) IN
        /\ run' = [run EXCEPT !.pc = "filtered", !.msgs = res.ids]
        /\ calls' = calls \o res.calls
    /\ UNCHANGED <<mailbox, selected, folder, crit, obs, watchVars, handlerVars>>

\* The connection as an execution finds it; the server refuses the
\* command numbered fail.
ActionState(fail) ==
    [mailbox |-> mailbox, sel |-> selected.name, calls |-> calls,
     issued |-> 0, fail |-> fail, raised |-> FALSE]

\* An application that executes the action in a dry run as well.
apply_action_ignoring_dry_run ==
    /\ run.pc = "filtered"
    /\ IF run.msgs # {}
       THEN \E fail \in 0..Len(PrimitiveActions(run.filter.action.func)) :
            LET st == execute(run.filter.action, ActionState(fail), run.msgs)
            IN /\ mailbox' = st.mailbox
               /\ calls' = st.calls
               /\ folder' = st.mailbox[selected.name]
               /\ run' = [run EXCEPT !.pc = IF st.raised THEN "raised" ELSE "applied",
                                     !.n = @ + 1, !.fail = fail]
       ELSE /\ UNCHANGED <<mailbox, calls, folder>>
            /\ run' = [run EXCEPT !.pc = "applied", !.n = @ + 1]
    /\ UNCHANGED <<selected, crit, obs, watchVars, handlerVars>>

\* An application that executes the action on an empty match as well.
apply_action_on_empty ==
    /\ run.pc = "filtered"
    /\ IF ~run.dry_run
       THEN \E fail \in 0..Len(PrimitiveActions(run.filter.action.func)) :
            LET st == execute(run.filter.action, ActionState(fail), run.msgs)
            IN /\ mailbox' = st.mailbox
               /\ calls' = st.calls
               /\ folder' = st.mailbox[selected.name]
               /\ run' = [run EXCEPT !.pc = IF st.raised THEN "raised" ELSE "applied",
                                     !.n = @ + 1, !.fail = fail]
       ELSE /\ UNCHANGED <<mailbox, calls, folder>>
            /\ run' = [run EXCEPT !.pc = "applied", !.n = @ + 1]
    /\ UNCHANGED <<selected, crit, obs, watchVars, handlerVars>>

\* the rest of apply: if msgs: if dry_run: log, else
\* self.action.execute(self.account, msgs); an exception of execute leaves
\* apply with the action partly done.
apply_action ==
    /\ run.pc = "filtered"
    /\ IF run.msgs # {} /\ ~run.dry_run
       THEN \E fail \in 0..Len(PrimitiveActions(run.filter.action.func)) :
            LET st == execute(run.filter.action, ActionState(fail), run.msgs)
            IN /\ mailbox' = st.mailbox
               /\ calls' = st.calls
               /\ folder' = st.mailbox[selected.name]
               /\ run' = [run EXCEPT !.pc = IF st.raised THEN "raised" ELSE "applied",
                                     !.n = @ + 1, !.fail = fail]
       ELSE /\ UNCHANGED <<mailbox, calls, folder>>
            /\ run' = [run EXCEPT !.pc = "applied", !.n = @ + 1]
    /\ UNCHANGED <<selected, crit, obs, watchVars, handlerVars>>

FilterInit ==
    /\ WatchIdle
    /\ HandlerIdle
    /\ crit = NoCrit
    /\ obs = NoObs
    /\ mailbox \in UNION {Mailboxes(n) : n \in 0..MaxFilterMsgs}
    /\ selected = NoSelection
    /\ folder = <<>>
    /\ calls = <<>>
    /\ run = [pc |-> "idle", n |-> 0, filter |-> NoFilter, dry_run |-> FALSE,
              msgs |-> {}, before |-> mailbox, prev |-> NoSelection, fail |-> 0,
              last |-> [filter |-> NoFilter, msgs |-> {}]]

\* Between two applications a message arrives in INBOX, under an id the
\* account has not used, while the account holds fewer than MaxFilterMsgs
\* messages; no application is in progress or just finished.
deliver ==
    /\ run.pc \in {"applied", "raised"}
    /\ LET held == Cardinality(UNION {DOMAIN mailbox[f] : f \in FolderNames}) IN
        /\ held < MaxFilterMsgs
        /\ \E m \in FilterPool :
            /\ mailbox' = [mailbox EXCEPT !["INBOX"] =
                            [u \in DOMAIN @ \cup {held + 1} |->
                                IF u = held + 1 THEN m ELSE @[u]]]
            /\ folder' = mailbox'[selected.name]
    /\ run' = [run EXCEPT !.pc = "idle"]
    /\ UNCHANGED <<selected, calls, crit, obs, watchVars, handlerVars>>

FilterNext == apply_select \/ apply_criterion \/ apply_action \/ deliver

FilterSpec == FilterInit /\ [][FilterNext]_vars

(***************************************************************************)
(* Properties of filters and actions                                       *)
(***************************************************************************)

IsActionCall(c) == c[1] \in ActionCommands
IsSearchCall(c) == c[1] = "search"

\* The flag and folder changing commands of the current application.
ActionCalls == SelectSeq(calls, IsActionCall)

\* One command per primitive, each with the whole id list.
OneCallEach(prims, msgids) ==
    [k \in 1..Len(prims) |-> <<prims[k][1], msgids, prims[k][2]>>]

\* Every message except those of msgids in folder base is in the folder it
\* was in, with the flags it had.
Untouched(before, after, base, msgids) ==
    \A f \in FolderNames : \A u \in DOMAIN before[f] :
        (f # base \/ u \notin msgids) =>
            u \in DOMAIN after[f] /\ after[f][u] = before[f][u]

Applied == run.pc = "applied"
Executed == run.pc = "applied" /\ ~run.dry_run /\ run.msgs # {}

\* C11: an application with dry_run=True evaluates the criterion (it issues
\* the search) and never executes the action: no move, add_flags,
\* remove_flags or expunge is issued, and every message keeps its flags and
\* its folder.
C11_DryRunChangesNothing ==
    Applied /\ run.dry_run =>
        /\ SelectSeq(calls, IsSearchCall) # <<>>
        /\ ActionCalls = <<>>
        /\ mailbox = run.before

\* A dry run whose criterion matched messages.
C11_Witness ==
    Applied /\ run.dry_run /\ run.msgs # {} /\ SelectSeq(calls, IsSearchCall) # <<>>

\* C12: when the criterion matches no message, the application never
\* invokes the action, with dry_run and without.
C12_NoMatchNoAction ==
    Applied /\ run.msgs = {} =>
        /\ ActionCalls = <<>>
        /\ mailbox = run.before

\* A real application on a folder that holds messages, none of them matched.
C12_Witness ==
    /\ Applied /\ ~run.dry_run /\ run.msgs = {}
    /\ DOMAIN run.before[run.filter.base_folder] # {}
    /\ SelectSeq(calls, IsSearchCall) # <<>>

\* C13: every application first selects the filter's own folder read-write
\* on the account's connection and selects no other folder afterwards, so
\* the criterion is evaluated on that folder's messages and the action
\* changes only matched messages of that folder, whatever folder the
\* connection had selected before.
C13_OwnFolderSelectedFirst ==
    run.pc \in {"filtered", "applied"} =>
        /\ calls # <<>>
        /\ calls[1][1] = "select_folder"
        /\ calls[1][2] = run.filter.base_folder
        /\ calls[1][3] = FALSE
        /\ \A k \in 2..Len(calls) : calls[k][1] # "select_folder"
        /\ selected = [name |-> run.filter.base_folder, readonly |-> FALSE]
        /\ run.msgs \subseteq DOMAIN run.before[run.filter.base_folder]
        /\ Untouched(run.before, mailbox, run.filter.base_folder, run.msgs)

\* A filter on Archive executed its action on a connection that an earlier
\* filter had left on INBOX, while INBOX held messages too.
C13_Witness ==
    /\ Executed
    /\ run.filter.base_folder = "Archive"
    /\ run.prev.name = "INBOX"
    /\ DOMAIN run.before["INBOX"] # {}

\* C14: executing a chained action issues the commands of its primitive
\* actions from left to right, one command per primitive and each with the
\* complete id list; MarkAsRead() & MoveTo(X) issues add_flags(ids, \Seen)
\* and then move(ids, X).
C14_ChainRunsLeftToRight ==
    Executed =>
        /\ ActionCalls = OneCallEach(PrimitiveActions(run.filter.action.func), run.msgs)
        /\ run.filter.cls = "MoveIfFromFilter" /\ run.filter.args.mark_read =>
                ActionCalls = << <<"add_flags", run.msgs, "\\Seen">>,
                                 <<"move", run.msgs, run.filter.args.folder>> >>

\* MarkAsRead() & MoveTo("Archive") was executed on a batch of two messages.
C14_Witness ==
    /\ Executed
    /\ run.filter.cls = "MoveIfFromFilter"
    /\ Cardinality(run.msgs) >= 2
    /\ Len(ActionCalls) = 2

\* C20: ProcessHandledFilter selects only messages that the given criterion
\* selects and that are starred; on the selected batch it issues
\* remove_flags(ids, \Flagged) first and the wrapped action's commands after
\* it, and it changes no other message.
C20_HandledOnlyStarredUnstarFirst ==
    run.filter.cls = "ProcessHandledFilter" =>
        /\ run.pc = "filtered" =>
                \A u \in run.msgs :
                    /\ u \in Filter(run.filter.args.criterion).ids
                    /\ "\\Flagged" \in folder[u].flags
        /\ Executed =>
                /\ Head(ActionCalls) = <<"remove_flags", run.msgs, "\\Flagged">>
                /\ Tail(ActionCalls) =
                       OneCallEach(PrimitiveActions(run.filter.args.action.func), run.msgs)
                /\ Untouched(run.before, mailbox, run.filter.base_folder, run.msgs)
                /\ \A f \in FolderNames : \A u \in DOMAIN mailbox[f] \cap run.msgs :
                       "\\Flagged" \notin mailbox[f][u].flags

\* A starred message from a@x was unstarred and moved while an unstarred
\* message from a@x stayed in the folder as it was.
C20_Witness ==
    /\ Executed
    /\ run.filter.cls = "ProcessHandledFilter"
    /\ run.filter.args.criterion = FromIs(A_X)
    /\ \E u \in DOMAIN run.before["INBOX"] \ run.msgs :
           /\ run.before["INBOX"][u].from_[1][2] = A_X
           /\ mailbox["INBOX"][u] = run.before["INBOX"][u]
    /\ \E u \in DOMAIN mailbox["Archive"] \cap run.msgs :
           "\\Flagged" \notin mailbox["Archive"][u].flags

(***************************************************************************)
(* Accounts, connections and reactions                                     *)
(***************************************************************************)
\* reactions and reconnects of the watcher per run
MaxWatchSteps == 2

Accounts == {"acc1", "acc2"}

\* The state the operators below transform: every connection created so
\* far, each account's cached connection, and the log of what was called.
\* A connection records who opened it and, per command, who issued it: the
\* watcher (start, _watch, _reconnect) or a callback (filters, logout_all).

\* EMailAccount._create_connection(base_folder, readonly): login, then
\* select_folder.  Returns the state and the new connection.
create_connection(s, account, base_folder, readonly, by) ==
    LET c == [account |-> account, folder |-> base_folder, readonly |-> readonly,
              state |-> "SELECTED", by |-> by,
              calls |-> <<<<"login", by>>, <<"select_folder", by>>>>]
    IN [st |-> [s EXCEPT !.connections = Append(@, c)],
        conn |-> Len(s.connections) + 1]

\* A connection property that hands out whatever is cached.
EMailAccount_connection_never_renewed(s, account, by) ==
    IF s.cached[account] = 0
       THEN LET r == create_connection(s, account, "INBOX", FALSE, by)
            IN [st |-> [r.st EXCEPT !.cached[account] = r.conn], conn |-> r.conn]
       ELSE [st |-> s, conn |-> s.cached[account]]

\* EMailAccount.connection: the cached connection, replaced by a new one
\* when there is none or it has logged out.
EMailAccount_connection(s, account, by) ==
    IF s.cached[account] = 0 \/ s.connections[s.cached[account]].state = "LOGOUT"
       THEN LET r == create_connection(s, account, "INBOX", FALSE, by)
            IN [st |-> [r.st EXCEPT !.cached[account] = r.conn], conn |-> r.conn]
       ELSE [st |-> s, conn |-> s.cached[account]]

\* An extra_connection that hands out the account's cached connection.
extra_connection_cached(s, account, base_folder, readonly, by) ==
    LET r == EMailAccount_connection(s, account, by)
    IN [st |-> [r.st EXCEPT !.connections[r.conn].folder = base_folder,
                            !.connections[r.conn].readonly = readonly],
        conn |-> r.conn]

\* EMailAccount.extra_connection(base_folder, readonly)
extra_connection(s, account, base_folder, readonly, by) ==
    create_connection(s, account, base_folder, readonly, by)

\* connection.logout()
Logout(s, c, by) ==
    [s EXCEPT !.connections[c].state = "LOGOUT",
              !.connections[c].calls = Append(@, <<"logout", by>>)]

\* EMailAccount.logout(): if self._connection is not None: logout
EMailAccount_logout(s, account) ==
    IF s.cached[account] # 0
       THEN [Logout(s, s.cached[account], "callback")
                EXCEPT !.log = Append(@, <<"logout", account, s.cached[account]>>)]
       ELSE s

\* logout_all(accounts): account.logout() for each account of the set
RECURSIVE logout_all(_, _)
logout_all(s, accounts) ==
    IF accounts = {} THEN s
    ELSE LET account == CHOOSE a \in accounts : TRUE
         IN logout_all(EMailAccount_logout(s, account), accounts \ {account})

\* A CriterionFilter of an account, as the connection sees it: hits tells
\* whether its criterion matches messages when it is applied.
AccountFilter(account, base_folder, hits) ==
    [account |-> account, base_folder |-> base_folder, hits |-> hits]

\* all_unique_accounts(filters)
all_unique_accounts(filters) == {filters[k].account : k \in 1..Len(filters)}

\* filt.apply(): select_folder and search on account.connection, then fetch
\* and the action's commands when messages match.
Filter_apply(s, filt) ==
    LET r == EMailAccount_connection(s, filt.account, "callback")
        cmds == <<"select_folder", "search">> \o
                (IF filt.hits THEN <<"fetch", "add_flags", "move">> ELSE <<>>)
    IN [r.st EXCEPT !.connections[r.conn].folder = filt.base_folder,
                    !.connections[r.conn].readonly = FALSE,
                    !.connections[r.conn].calls =
                        @ \o [k \in 1..Len(cmds) |-> <<cmds[k], "callback">>],
                    !.log = Append(@, <<"apply", filt, r.conn>>)]

\* apply_filters(filters): for filt in filters: filt.apply()
RECURSIVE apply_filters(_, _)
apply_filters(s, filters) ==
    IF filters = <<>> THEN s
    ELSE apply_filters(Filter_apply(s, Head(filters)), Tail(filters))

\* A reaction body that logs out before it applies the filters.
filter_and_logout_early(s, filters) ==
    apply_filters(logout_all(s, all_unique_accounts(filters)), filters)

\* the body shared by the filter-running callbacks:
\* apply_filters(filters); logout_all(all_unique_accounts(filters))
filter_and_logout(s, filters) ==
    logout_all(apply_filters(s, filters), all_unique_accounts(filters))

\* IDLE responses: (n, b"EXISTS"), (n, b"EXPUNGE"), (n, b"FETCH", (b"FLAGS", flags))
EXISTS == <<1, "EXISTS">>
EXPUNGE == <<1, "EXPUNGE">>
FETCH(fl) == <<1, "FETCH", <<"FLAGS", fl>>>>

\* The batches idle_check returns; the empty batch is its timeout.
Batches == {
    <<>>,
    <<EXISTS>>,
    <<EXPUNGE>>,
    <<FETCH(<<"\\Seen">>)>>,
    <<FETCH(<<>>)>>,
    <<FETCH(<<"\\Seen", "\\Flagged">>)>>,
    <<EXPUNGE, EXISTS>>,
    <<EXISTS, FETCH(<<"\\Seen">>)>>,
    <<EXPUNGE, FETCH(<<"\\Seen">>)>>}

\* A test that takes any event for new mail.
newmail_run_any_event(responses) == responses # <<>>

\* run, as filter_when_newmail computes it
newmail_run(responses) ==
    \E k \in 1..Len(responses) : responses[k][2] = "EXISTS"

\* A test that takes any FETCH for a message marked read.
read_run_any_fetch(responses) ==
    \E k \in 1..Len(responses) : responses[k][2] = "FETCH"

\* run, as filter_when_read computes it
read_run(responses) ==
    \E k \in 1..Len(responses) :
        responses[k][2] = "FETCH" /\ responses[k][3] = <<"FLAGS", <<"\\Seen">>>>

\* The callbacks print_responses(), filter_when_anything(filters),
\* filter_when_newmail(filters) and filter_when_read(filters) return.
print_responses == <<"print_responses">>
filter_when_anything(filters) == <<"filter_when_anything", filters>>
filter_when_newmail(filters) == <<"filter_when_newmail", filters>>
filter_when_read(filters) == <<"filter_when_read", filters>>

\* EventsHandler(account, handler, folder)
EventsHandler(account, handler, fold) ==
    [account |-> account, handle |-> handler, folder |-> fold]

\* self + other
EventsHandler_add(self, other) ==
    EventsHandler(self.account, <<"add", self.handle, other.handle>>, self.folder)

\* handle(responses): the callback h called with the batch.
RECURSIVE Handle(_, _, _)

\* A combined reaction that runs the right operand first.
add_func_other_first(f, g, s, responses) == Handle(f, Handle(g, s, responses), responses)

\* func of __add__: self.handle(responses); other.handle(responses)
add_func(f, g, s, responses) == Handle(g, Handle(f, s, responses), responses)

Handle(h, s, responses) ==
    IF h[1] = "add" THEN add_func(h[2], h[3], s, responses)
    ELSE LET called == [s EXCEPT !.log = Append(@, <<"call", h, responses>>)] IN
         CASE h[1] = "print_responses" -> called
           [] h[1] = "filter_when_anything" -> filter_and_logout(called, h[2])
           [] h[1] = "filter_when_newmail" ->
                IF newmail_run(responses) THEN filter_and_logout(called, h[2]) ELSE called
           [] h[1] = "filter_when_read" ->
                IF read_run(responses) THEN filter_and_logout(called, h[2]) ELSE called

\* The filter lists the callbacks of a run are created with.
FilterLists == {
    <<>>,
    <<AccountFilter("acc2", "INBOX", TRUE)>>,
    <<AccountFilter("acc1", "INBOX", TRUE), AccountFilter("acc2", "INBOX", FALSE),
      AccountFilter("acc1", "Archive", FALSE)>>}

\* The handlers a run creates before it combines them.
SimpleHandlers ==
    {EventsHandler("acc1", print_responses, "INBOX")}
    \cup {EventsHandler("acc1", filter_when_anything(fl), "INBOX") : fl \in FilterLists}
    \cup {EventsHandler("acc1", filter_when_newmail(fl), "Archive") : fl \in FilterLists \ {<<>>}}
    \cup {EventsHandler("acc2", filter_when_read(fl), "INBOX") : fl \in FilterLists \ {<<>>}}

\* The handlers a run watches with: simple ones and sums of two.
Handlers ==
    SimpleHandlers \cup {EventsHandler_add(h1, h2) : h1 \in SimpleHandlers, h2 \in SimpleHandlers}

\* The connections, the cached connections and the log as one state.
HandlerState == [connections |-> connections, cached |-> cached, log |-> hrun.log]

\* Issue commands on connection c as the watcher.
WatcherCalls(s, c, cmds) ==
    [s EXCEPT !.connections[c].calls = @ \o [k \in 1..Len(cmds) |-> <<cmds[k], "watcher">>]]

\* EventsHandler.start(): self._conn = account.extra_connection(folder, readonly=True)
handler_start ==
    /\ hrun.pc = "new"
    /\ LET r == extra_connection(HandlerState, hrun.handler.account,
                                 hrun.handler.folder, TRUE, "watcher")
       IN /\ connections' = r.st.connections
          /\ cached' = r.st.cached
          /\ hconn' = r.conn
          /\ hrun' = [hrun EXCEPT !.pc = "watching",
                                  !.log = Append(r.st.log, <<"start", r.conn>>)]
    /\ UNCHANGED <<watchVars, critVars, mailVars>>

\* One pass of the loop of _watch without an exception: idle, idle_check,
\* idle_done, self.handle(responses), noop.
handler_react ==
    /\ hrun.pc = "watching"
    /\ hrun.n < MaxWatchSteps
    /\ connections[hconn].state # "LOGOUT"
    /\ \E responses \in Batches :
        LET idled == WatcherCalls(HandlerState, hconn, <<"idle", "idle_check", "idle_done">>)
            begun == [idled EXCEPT !.log = Append(@, <<"react", responses>>)]
            handled == Handle(hrun.handler.handle, begun, responses)
            s == IF handled.connections[hconn].state # "LOGOUT"
                    THEN WatcherCalls(handled, hconn, <<"noop">>) ELSE handled
        IN /\ connections' = s.connections
           /\ cached' = s.cached
           /\ hrun' = [hrun EXCEPT !.n = @ + 1, !.log = s.log]
    /\ UNCHANGED <<hconn, watchVars, critVars, mailVars>>

\* EventsHandler._reconnect(): log the old connection out, open a new one.
handler_reconnect ==
    /\ hrun.pc = "watching"
    /\ hrun.n < MaxWatchSteps
    /\ LET out == Logout(HandlerState, hconn, "watcher")
           r == extra_connection(out, hrun.handler.account, hrun.handler.folder,
                                 TRUE, "watcher")
       IN /\ connections' = r.st.connections
          /\ cached' = r.st.cached
          /\ hconn' = r.conn
          /\ hrun' = [hrun EXCEPT !.n = @ + 1,
                                  !.log = Append(r.st.log, <<"reconnect", r.conn>>)]
    /\ UNCHANGED <<watchVars, critVars, mailVars>>

HandlerInit ==
    /\ WatchIdle
    /\ MailIdle
    /\ folder = <<>>
    /\ crit = NoCrit
    /\ obs = NoObs
    /\ connections = <<>>
    /\ cached = [a \in Accounts |-> 0]
    /\ hconn = 0
    /\ \E h \in Handlers : hrun = [pc |-> "new", n |-> 0, handler |-> h, log |-> <<>>]

HandlerNext == handler_start \/ handler_react \/ handler_reconnect

HandlerSpec == HandlerInit /\ [][HandlerNext]_vars

(***************************************************************************)
(* Properties of reactions and connections                                 *)
(***************************************************************************)

IsApply(e) == e[1] = "apply"
IsLogout(e) == e[1] = "logout"
IsCall(e) == e[1] = "call"

\* Positions of the log where a callback was invoked / a reaction began.
CallIdx == {i \in 1..Len(hrun.log) : hrun.log[i][1] = "call"}
ReactIdx == {i \in 1..Len(hrun.log) : hrun.log[i][1] = "react"}

\* What the callback invoked at position i did: the applications and
\* logouts logged before anything else is logged.
BodyEnd(i) ==
    CHOOSE j \in i..Len(hrun.log) :
        /\ \A k \in (i + 1)..j : hrun.log[k][1] \in {"apply", "logout"}
        /\ j = Len(hrun.log) \/ hrun.log[j + 1][1] \notin {"apply", "logout"}
Body(i) == SubSeq(hrun.log, i + 1, BodyEnd(i))
Applies(i) == SelectSeq(Body(i), IsApply)
Logouts(i) == SelectSeq(Body(i), IsLogout)

\* The callback invoked at position i applied each of its filters once, in
\* the order of its list.
AppliedBatchOnce(i) ==
    [k \in 1..Len(Applies(i)) |-> Applies(i)[k][2]] = hrun.log[i][2][2]

\* The callback invocations of the reaction that began at position r.
ReactEnd(r) ==
    CHOOSE j \in r..Len(hrun.log) :
        /\ \A k \in (r + 1)..j : hrun.log[k][1] \notin {"react", "reconnect"}
        /\ j = Len(hrun.log) \/ hrun.log[j + 1][1] \in {"react", "reconnect"}
CallsOf(r) == SelectSeq(SubSeq(hrun.log, r + 1, ReactEnd(r)), IsCall)

HasExists(responses) ==
    \E k \in 1..Len(responses) : responses[k][2] = "EXISTS"

HasMarkedRead(responses) ==
    \E k \in 1..Len(responses) : responses[k] = <<1, "FETCH", <<"FLAGS", <<"\\Seen">>>>>>

\* The commands a filter issues on a connection.
FilterCommands == {"search", "fetch", "add_flags", "remove_flags", "move", "expunge"}

C16_NewmailRunsOnExists ==
    \A i \in CallIdx :
        hrun.log[i][2][1] = "filter_when_newmail" =>
            IF HasExists(hrun.log[i][3]) THEN AppliedBatchOnce(i) ELSE Body(i) = <<>>

\* The callback ran its filters for a batch with EXISTS after another event
\* and stayed idle for the empty batch.
C16_Witness ==
    /\ \E i \in CallIdx :
        /\ hrun.log[i][2][1] = "filter_when_newmail"
        /\ hrun.log[i][3] = <<EXPUNGE, EXISTS>>
        /\ Len(Applies(i)) = 3
    /\ \E i \in CallIdx :
        /\ hrun.log[i][2][1] = "filter_when_newmail"
        /\ hrun.log[i][3] = <<>>
        /\ Body(i) = <<>>

\* C17: an invocation of the filter_when_read callback applies its filter
\* batch exactly once when the batch contains a FETCH event whose detail is
\* (FLAGS, (\Seen,)), and applies no filter when it contains none.
C17_ReadRunsOnSeenFetch ==
    \A i \in CallIdx :
        hrun.log[i][2][1] = "filter_when_read" =>
            IF HasMarkedRead(hrun.log[i][3]) THEN AppliedBatchOnce(i) ELSE Body(i) = <<>>

\* The callback ran its filters for a batch with such a FETCH and stayed
\* idle for a FETCH that reports other flags along with \Seen.
C17_Witness ==
    /\ \E i \in CallIdx :
        /\ hrun.log[i][2][1] = "filter_when_read"
        /\ hrun.log[i][3] = <<EXISTS, FETCH(<<"\\Seen">>)>>
        /\ Len(Applies(i)) = 3
    /\ \E i \in CallIdx :
        /\ hrun.log[i][2][1] = "filter_when_read"
        /\ hrun.log[i][3] = <<FETCH(<<"\\Seen", "\\Flagged">>)>>
        /\ Body(i) = <<>>

\* C18: a reaction of the handler h1 + h2 to a batch calls h1's callback and
\* then h2's callback, each exactly once and each with that batch.
C18_SumCallsBothInOrder ==
    \A r \in ReactIdx :
        hrun.handler.handle[1] = "add" =>
            CallsOf(r) = << <<"call", hrun.handler.handle[2], hrun.log[r][2]>>,
                            <<"call", hrun.handler.handle[3], hrun.log[r][2]>> >>

\* A sum of two different filter-running callbacks reacted to a batch that
\* makes both of them apply their filters.
C18_Witness ==
    \E r \in ReactIdx :
        /\ hrun.handler.handle[1] = "add"
        /\ hrun.handler.handle[2][1] = "filter_when_newmail"
        /\ hrun.handler.handle[3][1] = "filter_when_anything"
        /\ hrun.log[r][2] = <<EXISTS>>
        /\ Len(CallsOf(r)) = 2
        /\ hrun.log[r + 2][1] = "apply"

\* C19: every connection the watcher waits on is one it opened itself at
\* start or at a reconnect, read-only on the watched folder of its account;
\* it is never an account's cached connection, and every command on it is
\* issued by the watcher: no filter command and no logout of a callback.
C19_WatcherConnectionIsDedicated ==
    /\ \A c \in DOMAIN connections :
        connections[c].by = "watcher" =>
            /\ connections[c].readonly
            /\ connections[c].folder = hrun.handler.folder
            /\ connections[c].account = hrun.handler.account
            /\ \A a \in Accounts : cached[a] # c
            /\ \A k \in 1..Len(connections[c].calls) :
                /\ connections[c].calls[k][2] = "watcher"
                /\ connections[c].calls[k][1] \notin FilterCommands
    /\ hconn # 0 => connections[hconn].by = "watcher"
    /\ \A i, j \in 1..Len(hrun.log) :
        hrun.log[i][1] \in {"start", "reconnect"} /\ hrun.log[j][1] \in {"start", "reconnect"}
            => connections[hrun.log[i][2]].by = "watcher"
               /\ (hrun.log[i][2] = hrun.log[j][2] => i = j)

\* After a reconnect, a callback applied filters of the watched account and
\* logged that account out while the watcher's connection stayed usable.
C19_Witness ==
    /\ hconn # 0
    /\ connections[hconn].state # "LOGOUT"
    /\ \E i \in 1..Len(hrun.log) : hrun.log[i][1] = "reconnect"
    /\ cached[hrun.handler.account] # 0
    /\ connections[cached[hrun.handler.account]].state = "LOGOUT"
    /\ \E k \in 1..Len(connections[hconn].calls) : connections[hconn].calls[k][1] = "noop"

(***************************************************************************)
(* Properties of stopping the watcher                                      *)
(***************************************************************************)

\* C21: stop() tolerates the errors of ending the idle wait and of logging
\* out: a failure of idle_done does not keep stop() from attempting the
\* logout, and stop() never ends by raising to its caller.
C21_StopNeverRaises ==
    mpc # "stop_raised"

\* C22: the stop flag is checked when the blocking wait returns: once a
\* stop has been requested while the thread is in idle_check, the reaction
\* callback is not invoked any more.
C22_NoCallbackAfterStopInWait ==
    [](wpc = "idle_check" /\ stop_event => [](wpc # "in_handle"))

\* C23: when the connection-error handler of the loop runs and a stop has
\* been requested, the loop ends there: the thread neither raises nor logs
\* out, reconnects or sleeps.
C23_ConnErrAfterStopExits ==
    [][wpc = "except_conn" /\ stop_event /\ wpc' # wpc
          => wpc' = "done" /\ conns' = conns /\ conn' = conn]_vars

\* An injected failure was handled after the stop request: the loop is done
\* and the only connection ever opened is the one of start().
C23_Witness ==
    wpc = "done" /\ stop_event /\ nerr >= 1 /\ Len(conns) = 1

\* C27: once stop() has been requested and has returned and the loop has
\* terminated, every connection the watcher opened is logged out; and no
\* connection is opened after the stop request.
C27_NoWatcherConnectionLeftOpen ==
    /\ [](stop_event /\ wpc = "done" /\ mpc \in {"stop_returned", "joined"}
             => \A c \in DOMAIN conns : conns[c] = "LOGOUT")
    /\ [][stop_event => Len(conns') = Len(conns)]_vars

\* C28: idle and idle_done alternate on the watcher's connection: stop()
\* and the loop issue idle_done only while an idle is in progress, and the
\* loop begins an idle, runs the callback and issues noop only while none is.
C28_IdleAndDoneAlternate ==
    /\ mpc = "stop_idle_done" => conns[conn] = "IDLE"
    /\ wpc = "idle_done" => conns[conn] = "IDLE"
    /\ wpc \in {"idle", "in_handle", "noop"} => conns[conn] # "IDLE"

(***************************************************************************)
(* Properties of the query of a conjunction                                *)
(***************************************************************************)

\* The query a criterion's filter sends to the server.
SentQuery(c) == IF Truthy(c.imap_query) THEN c.imap_query ELSE <<"ALL">>

\* C25: the query of lhs & rhs selects on the server exactly the messages
\* both operands' queries select, an operand without a query counting as
\* ALL; rhs & lhs selects the same messages; the conjunction has a query
\* unless neither operand has one; and its filter searches with that query.
C25_AndQueryIsConjunction ==
    obs.op = "and" =>
        /\ search(SentQuery(crit)) = search(SentQuery(obs.lhs)) \cap search(SentQuery(obs.rhs))
        /\ search(SentQuery(And(obs.rhs, obs.lhs))) = search(SentQuery(crit))
        /\ Truthy(crit.imap_query) <=> Truthy(obs.lhs.imap_query) \/ Truthy(obs.rhs.imap_query)
        /\ obs.filtered => obs.result.calls[1] = <<"search", SentQuery(crit)>>

\* A criterion without a query was combined with one that has a query, and
\* the search of the conjunction left out a message of the folder.
C25_Witness ==
    /\ obs.op = "and" /\ obs.filtered
    /\ ~Truthy(obs.lhs.imap_query) /\ Truthy(obs.rhs.imap_query)
    /\ search(SentQuery(crit)) # DOMAIN folder
    /\ obs.result.calls[1] = <<"search", obs.rhs.imap_query>>

\* What the server does of the commands of prims, issued left to right on
\* the batch msgids with folder sel selected, when it accepts them all.
RECURSIVE EffectOf(_, _, _, _)
EffectOf(prims, mb, sel, msgids) ==
    IF prims = <<>> THEN mb
    ELSE LET p == Head(prims)
             done == CASE p[1] = "move" -> ServerMove(mb, sel, msgids, p[2])
                       [] p[1] = "add_flags" -> ServerAddFlags(mb, sel, msgids, p[2])
                       [] p[1] = "remove_flags" -> ServerRemoveFlags(mb, sel, msgids, p[2])
         IN EffectOf(Tail(prims), done, sel, msgids)

\* C24: a chained action has no rollback.  The execution of an action
\* raises exactly when the server refuses one of its commands; the commands
\* issued are then those up to and including the refused one, in order, so
\* that nothing to the right of the failing part is executed, and the effect
\* of every command to its left remains in the mailbox.
C24_ChainHasNoRollback ==
    run.pc \in {"applied", "raised"} /\ ~run.dry_run /\ run.msgs # {} =>
        LET prims == PrimitiveActions(run.filter.action.func) IN
        /\ run.pc = "raised" <=> run.fail \in 1..Len(prims)
        /\ run.pc = "raised" =>
            /\ ActionCalls = SubSeq(OneCallEach(prims, run.msgs), 1, run.fail)
            /\ mailbox = EffectOf(SubSeq(prims, 1, run.fail - 1), run.before,
                                  selected.name, run.msgs)

\* MarkAsRead() & MoveTo(folder) raised in MoveTo: the batch, unread before,
\* is read and still in the folder it was in.
C24_Witness ==
    /\ run.pc = "raised" /\ run.fail = 2
    /\ run.filter.cls = "MoveIfFromFilter" /\ run.filter.args.mark_read
    /\ run.filter.args.folder # selected.name
    /\ \A u \in run.msgs :
            /\ "\\Seen" \notin run.before[selected.name][u].flags
            /\ u \in DOMAIN mailbox[selected.name]
            /\ "\\Seen" \in mailbox[selected.name][u].flags

\* C26: a filter keeps no result between applications.  Every application
\* searches the folder as the server holds it at that time, and the ids it
\* hands to the action are the ids the criterion selects there: ids of
\* messages that are in the filter's folder now, whatever an earlier
\* application of the same filter selected.
C26_EveryApplySearchesAfresh ==
    run.pc = "filtered" =>
        /\ folder = mailbox[run.filter.base_folder]
        /\ run.msgs = Filter(run.filter.criterion).ids
        /\ run.msgs \subseteq DOMAIN mailbox[run.filter.base_folder]
        /\ Len(SelectSeq(calls, IsSearchCall)) = 1

\* The second application of a filter whose first application moved its
\* batch away, after a matching message arrived: it selects the new message
\* and none of the first batch.
C26_Witness ==
    /\ run.pc = "filtered" /\ run.n = 1
    /\ run.last.filter = run.filter
    /\ run.last.msgs # {} /\ run.msgs # {}
    /\ run.last.msgs \cap run.msgs = {}
    /\ run.last.msgs \cap DOMAIN mailbox[run.filter.base_folder] = {}

\* C29: once the ids that DuplicateCriterion.filter reported are removed
\* from the folder, every duplicate key of the folder's parsable messages
\* is carried by exactly one message, no other message is gone, and a second
\* evaluation on the folder that results reports nothing.
C29_OneMessagePerKeyAfterRemoval ==
    obs.op = "trashed" =>
        LET parsable(fold) == {i \in DOMAIN fold : fold[i].raw = "ok"}
            key(fold, i) == get_duplicate_key(ParsedMail(fold[i]))
        IN /\ \A i \in parsable(obs.before) :
                  Cardinality({j \in parsable(folder) :
                                  key(folder, j) = key(obs.before, i)}) = 1
           /\ DOMAIN obs.before \ DOMAIN folder = obs.first
           /\ obs.filtered => obs.result.ids = {}

\* A folder whose three messages were one group: two were removed and the
\* second evaluation was made on the one that stays.
C29_Witness ==
    /\ obs.op = "trashed" /\ obs.filtered
    /\ Cardinality(obs.first) = 2
    /\ Cardinality(DOMAIN folder) = 1
    /\ Len(obs.result.calls) = 2

\* Positions of the log where a filter of the account was applied / the
\* account was logged out.
AppliesOf(account) ==
    {i \in 1..Len(hrun.log) : hrun.log[i][1] = "apply" /\ hrun.log[i][2].account = account}
LogoutsOf(account) ==
    {i \in 1..Len(hrun.log) : hrun.log[i][1] = "logout" /\ hrun.log[i][2] = account}

\* C30: EMailAccount.connection never hands out a connection that has been
\* logged out.  The connection a filter is applied on is the account's own,
\* logged in and not logged out before; two accesses with no logout of the
\* account between them get the same connection, two accesses with a logout
\* between them get different ones, the later one new and cached; and no
\* connection is opened for an account but those its filters were applied
\* on, none of which is used after its logout.
C30_ConnectionNeverLoggedOut ==
    \A a \in Accounts :
        /\ \A i \in AppliesOf(a) :
            LET c == hrun.log[i][3] IN
            /\ connections[c].account = a /\ connections[c].by = "callback"
            /\ \A j \in LogoutsOf(a) : j < i => hrun.log[j][3] # c
            /\ \A j \in AppliesOf(a) : j < i =>
                    IF \E k \in LogoutsOf(a) : j < k /\ k < i
                       THEN hrun.log[j][3] < c
                       ELSE hrun.log[j][3] = c
        /\ {c \in DOMAIN connections :
                connections[c].account = a /\ connections[c].by = "callback"}
             = {hrun.log[i][3] : i \in AppliesOf(a)}
        /\ AppliesOf(a) # {} =>
                cached[a] = hrun.log[CHOOSE i \in AppliesOf(a) :
                                        \A j \in AppliesOf(a) : j <= i][3]
        /\ \A c \in DOMAIN connections :
                connections[c].account = a /\ connections[c].by = "callback" =>
                    \A k \in 1..Len(connections[c].calls) :
                        connections[c].calls[k][1] = "logout" => k = Len(connections[c].calls)

\* Two filters of one account were applied in one reaction on one
\* connection, the account was logged out, and the next reaction applied
\* them on a new connection.
C30_Witness ==
    \E a \in Accounts : \E i, j, k \in AppliesOf(a) : \E l \in LogoutsOf(a) :
        /\ i < j /\ j < l /\ l < k
        /\ hrun.log[i][3] = hrun.log[j][3]
        /\ hrun.log[l][3] = hrun.log[j][3]
        /\ hrun.log[k][3] # hrun.log[j][3]
        /\ connections[hrun.log[j][3]].state = "LOGOUT"
        /\ cached[a] = hrun.log[k][3]

====
